---- MODULE Spec2Model ----
(***************************************************************************)
(* Headcount capacity model (src/app.py): per-band inputs, the monthly     *)
(* simulate() loop (attrition, hires, quarter-end promotions, snapshot)    *)
(* and its outputs.                                                        *)
(*                                                                         *)
(* Python floats are IEEE-754 binary64.  They are modelled exactly: a      *)
(* float is a record [s, m, e] of value (-1)^s * m * 2^e with m an odd     *)
(* natural of at most 53 bits (the empty number for zero), and every       *)
(* arithmetic operation computes the exact result and rounds it to 53 bits *)
(* to nearest, ties to even.  Naturals wider than TLC's integers are       *)
(* little-endian sequences of 15-bit limbs without leading zero limbs.     *)
(* Infinities, NaNs and subnormals do not occur for the magnitudes of the  *)
(* model and are not represented.                                          *)
(***************************************************************************)
EXTENDS Integers, Sequences, FiniteSets, TLC

----------------------------------------------------------------------------
(* Naturals of arbitrary width *)

LimbBits == 15
Base == 32768
MantDig == 53

RECURSIVE Pow2(_)
Pow2(k) == IF k = 0 THEN 1 ELSE 2 * Pow2(k - 1)

RECURSIVE BStrip(_)
BStrip(a) ==
  IF a = <<>> THEN <<>>
  ELSE IF a[Len(a)] = 0 THEN BStrip(SubSeq(a, 1, Len(a) - 1)) ELSE a

BFromInt(n) ==
  IF n = 0 THEN <<>>
  ELSE IF n < Base THEN <<n>>
  ELSE IF n < Base * Base THEN <<n % Base, n \div Base>>
  ELSE <<n % Base, (n \div Base) % Base, n \div (Base * Base)>>

RECURSIVE BAddC(_, _, _)
BAddC(a, b, c) ==
  IF a = <<>> /\ b = <<>> THEN (IF c = 0 THEN <<>> ELSE <<c>>)
  ELSE LET x == (IF a = <<>> THEN 0 ELSE Head(a))
                + (IF b = <<>> THEN 0 ELSE Head(b)) + c
       IN  <<x % Base>> \o BAddC(IF a = <<>> THEN <<>> ELSE Tail(a),
                                 IF b = <<>> THEN <<>> ELSE Tail(b),
                                 x \div Base)

BAdd(a, b) == BAddC(a, b, 0)

RECURSIVE BSubC(_, _, _)
BSubC(a, b, c) ==
  IF a = <<>> THEN <<>>
  ELSE LET x == Head(a) - (IF b = <<>> THEN 0 ELSE Head(b)) - c
       IN  <<IF x < 0 THEN x + Base ELSE x>>
           \o BSubC(Tail(a), IF b = <<>> THEN <<>> ELSE Tail(b),
                    IF x < 0 THEN 1 ELSE 0)

\* a - b for a >= b
BSub(a, b) == BStrip(BSubC(a, b, 0))

RECURSIVE BCmpAt(_, _, _)
BCmpAt(a, b, i) ==
  IF i = 0 THEN 0
  ELSE IF a[i] < b[i] THEN -1
  ELSE IF a[i] > b[i] THEN 1
  ELSE BCmpAt(a, b, i - 1)

\* -1, 0, 1 as a < b, a = b, a > b
BCmp(a, b) ==
  IF Len(a) < Len(b) THEN -1
  ELSE IF Len(a) > Len(b) THEN 1
  ELSE BCmpAt(a, b, Len(a))

RECURSIVE BMulSmallC(_, _, _)
BMulSmallC(a, k, c) ==
  IF a = <<>> THEN (IF c = 0 THEN <<>> ELSE <<c>>)
  ELSE LET x == Head(a) * k + c
       IN  <<x % Base>> \o BMulSmallC(Tail(a), k, x \div Base)

\* a * k for 0 <= k < Base
BMulSmall(a, k) == IF k = 0 THEN <<>> ELSE BMulSmallC(a, k, 0)

BShiftLimbs(a, n) == IF a = <<>> THEN <<>> ELSE [i \in 1..n |-> 0] \o a

RECURSIVE BMul(_, _)
BMul(a, b) ==
  IF a = <<>> \/ b = <<>> THEN <<>>
  ELSE BAdd(BMulSmall(a, Head(b)), BShiftLimbs(BMul(a, Tail(b)), 1))

\* quotient and remainder of a by k, 0 < k < Base; limbs from the top
RECURSIVE BDivSmallAt(_, _, _, _)
BDivSmallAt(a, k, i, r) ==
  IF i = 0 THEN [q |-> <<>>, r |-> r]
  ELSE LET x == r * Base + a[i]
           rest == BDivSmallAt(a, k, i - 1, x % k)
       IN  [q |-> rest.q \o <<x \div k>>, r |-> rest.r]

BDivSmall(a, k) ==
  LET d == BDivSmallAt(a, k, Len(a), 0) IN [q |-> BStrip(d.q), r |-> d.r]

BShl(a, k) == BShiftLimbs(BMulSmall(a, Pow2(k % LimbBits)), k \div LimbBits)

BShr(a, k) ==
  LET n == k \div LimbBits
  IN  IF n >= Len(a) THEN <<>>
      ELSE BDivSmall(SubSeq(a, n + 1, Len(a)), Pow2(k % LimbBits)).q

RECURSIVE IntBitLen(_)
IntBitLen(n) == IF n = 0 THEN 0 ELSE 1 + IntBitLen(n \div 2)

BBitLen(a) ==
  IF a = <<>> THEN 0 ELSE (Len(a) - 1) * LimbBits + IntBitLen(a[Len(a)])

RECURSIVE IntTrailingZeros(_)
IntTrailingZeros(n) == IF n % 2 = 1 THEN 0 ELSE 1 + IntTrailingZeros(n \div 2)

\* number of trailing zero bits of a /= 0
RECURSIVE BTrailingZeros(_)
BTrailingZeros(a) ==
  IF Head(a) = 0 THEN LimbBits + BTrailingZeros(Tail(a))
  ELSE IntTrailingZeros(Head(a))

BIsOdd(a) == a /= <<>> /\ Head(a) % 2 = 1

----------------------------------------------------------------------------
(* binary64 arithmetic *)

FZero == [s |-> 0, m |-> <<>>, e |-> 0]
FNegZero == [s |-> 1, m |-> <<>>, e |-> 0]

\* the float of sign s nearest to n * 2^e (n a natural), ties to even
FRound(s, n, e) ==
  IF n = <<>> THEN [s |-> s, m |-> <<>>, e |-> 0]
  ELSE LET k == BBitLen(n) - MantDig
           q == BShr(n, k)
           r == BSub(n, BShl(q, k))
           c == BCmp(r, BShl(<<1>>, k - 1))
           up == c > 0 \/ (c = 0 /\ BIsOdd(q))
           n2 == IF k <= 0 THEN n ELSE IF up THEN BAdd(q, <<1>>) ELSE q
           e2 == IF k <= 0 THEN e ELSE e + k
           z == BTrailingZeros(n2)
       IN  [s |-> s, m |-> BShr(n2, z), e |-> e2 + z]

FromInt(i) == FRound(IF i < 0 THEN 1 ELSE 0, BFromInt(IF i < 0 THEN 0 - i ELSE i), 0)

FNeg(x) == [x EXCEPT !.s = 1 - x.s]

FIsZero(x) == x.m = <<>>

FMul(x, y) ==
  FRound((x.s + y.s) % 2, BMul(x.m, y.m), x.e + y.e)

\* magnitudes of x and y as naturals over the common exponent
FAlign(x, y) ==
  LET e == IF FIsZero(x) THEN y.e ELSE IF FIsZero(y) THEN x.e
           ELSE IF x.e < y.e THEN x.e ELSE y.e
  IN  [e |-> e,
       a |-> IF FIsZero(x) THEN <<>> ELSE BShl(x.m, x.e - e),
       b |-> IF FIsZero(y) THEN <<>> ELSE BShl(y.m, y.e - e)]

\* the exact sum of x and y: an unrounded [s, m, e] (m of any width)
XAdd(x, y) ==
  LET al == FAlign(x, y)
      c  == BCmp(al.a, al.b)
  IN  IF x.s = y.s THEN [s |-> x.s, m |-> BAdd(al.a, al.b), e |-> al.e]
      ELSE IF c = 0 THEN [s |-> 0, m |-> <<>>, e |-> 0]
      ELSE IF c > 0 THEN [s |-> x.s, m |-> BSub(al.a, al.b), e |-> al.e]
      ELSE [s |-> y.s, m |-> BSub(al.b, al.a), e |-> al.e]

FAdd(x, y) == LET v == XAdd(x, y) IN FRound(v.s, v.m, v.e)

FSub(x, y) == FAdd(x, FNeg(y))

\* x / y for y /= 0 whose odd significand fits one limb (100.0, 10.0)
FDiv(x, y) ==
  IF FIsZero(x) THEN [s |-> (x.s + y.s) % 2, m |-> <<>>, e |-> 0]
  ELSE LET sh == 2 * LimbBits * 3
           d  == BDivSmall(BShl(x.m, sh), y.m[1])
           n  == BAdd(BShl(d.q, 1), IF d.r = 0 THEN <<>> ELSE <<1>>)
       IN  FRound((x.s + y.s) % 2, n, x.e - y.e - sh - 1)

\* -1, 0, 1 as x < y, x = y, x > y (the two zeros are equal)
FCmp(x, y) ==
  LET al == FAlign(x, y)
      c  == BCmp(al.a, al.b)
  IN  IF FIsZero(x) /\ FIsZero(y) THEN 0
      ELSE IF x.s = 0 /\ y.s = 1 THEN 1
      ELSE IF x.s = 1 /\ y.s = 0 THEN -1
      ELSE IF x.s = 0 THEN c ELSE -c

FLe(x, y) == FCmp(x, y) <= 0
FLt(x, y) == FCmp(x, y) < 0
FAbs(x) == [x EXCEPT !.s = 0]

\* round(x, 1): the float nearest to the decimal with one fractional digit
\* nearest to x (ties of the exact value to even)
PyRound1(x) ==
  LET n10 == BMulSmall(x.m, 10)
      k   == 0 - x.e
      q   == BShr(n10, k)
      r   == BSub(n10, BShl(q, k))
      c   == BCmp(r, BShl(<<1>>, k - 1))
      up  == c > 0 \/ (c = 0 /\ BIsOdd(q))
      n   == IF k <= 0 THEN BShl(n10, x.e) ELSE IF up THEN BAdd(q, <<1>>) ELSE q
  IN  FDiv(FRound(x.s, n, 0), FromInt(10))

RECURSIVE BToInt(_)
BToInt(a) == IF a = <<>> THEN 0 ELSE Head(a) + Base * BToInt(Tail(a))

\* f"{x:,.0f}": the sign and the digits of the integer nearest to x (ties of
\* the exact value to even); the digits are grouped by thousands in the text
Format0f(x) ==
  LET k  == 0 - x.e
      q  == BShr(x.m, k)
      r  == BSub(x.m, BShl(q, k))
      c  == BCmp(r, BShl(<<1>>, k - 1))
      up == c > 0 \/ (c = 0 /\ BIsOdd(q))
      n  == IF k <= 0 THEN BShl(x.m, x.e) ELSE IF up THEN BAdd(q, <<1>>) ELSE q
  IN  [sign |-> IF x.s = 1 THEN "-" ELSE "", digits |-> BToInt(n)]

\* max(0.0, x): the first argument unless x is greater
PyMax0(x) == IF FLt(FZero, x) THEN x ELSE FZero

----------------------------------------------------------------------------
(* The program *)

VARIABLES
  TEAMS,       \* the band table: a sequence of [team, segment, promo_to, defaults]
  widgets,     \* team -> the values the four input widgets return
  inputs,      \* team -> the per-band inputs of simulate()
  pc,          \* position of the script
  di,          \* position of the month loop in dates
  hc,          \* team -> running headcount
  moves,       \* team -> amount to promote out of the band this quarter end
  i,           \* position of the apply loop in TEAM_ORDER
  pre,         \* history: hc as it was when moves was computed
  prev,        \* history: hc as it was when the month began
  rows,        \* snapshot rows recorded so far
  promo_rows,  \* promotion events recorded so far
  df,          \* the returned time series
  promo_df,    \* the returned promotion flows
  k1, k2, k3   \* the values shown by the three summary metrics

vars == <<TEAMS, widgets, inputs, pc, di, hc, moves, i, pre, prev, rows,
          promo_rows, df, promo_df, k1, k2, k3>>

None == "None"

\* 0.5 * h, the value of a slider of step 0.5 at its h-th stop
Halves(h) == FDiv(FromInt(h), FromInt(2))

Band(team, segment, promo_to, start, hires, attr, promo) ==
  [team |-> team, segment |-> segment, promo_to |-> promo_to,
   defaults |-> [start |-> start, hires |-> hires, attr |-> attr, promo |-> promo]]

\* the chain closed into a circle: the last band promotes into the first
DefaultTEAMSCircle ==
  << Band("1-2",     "SMB",  "3-4",     10, 1,  2, 5),
     Band("3-4",     "SMB",  "5-9",     36, 20, 5, 30),
     Band("5-9",     "SMB",  "10-19",   15, 15, 2, 20),
     Band("10-19",   "CMRL", "20-29",   88, 4,  3, 10),
     Band("20-29",   "CMRL", "30-49",   44, 1,  2, 10),
     Band("30-49",   "CMRL", "50-99",   30, 1,  2, 7),
     Band("50-99",   "MM",   "100-149", 27, 0,  2, 6),
     Band("100-149", "MM",   "1-2",     10, 0,  2, 0) >>

\* the defaults are written as the integers their literals denote (2.0 as 2)
DefaultTEAMS ==
  << Band("1-2",     "SMB",  "3-4",     10, 1,  2, 5),
     Band("3-4",     "SMB",  "5-9",     36, 20, 5, 30),
     Band("5-9",     "SMB",  "10-19",   15, 15, 2, 20),
     Band("10-19",   "CMRL", "20-29",   88, 4,  3, 10),
     Band("20-29",   "CMRL", "30-49",   44, 1,  2, 10),
     Band("30-49",   "CMRL", "50-99",   30, 1,  2, 7),
     Band("50-99",   "MM",   "100-149", 27, 0,  2, 6),
     Band("100-149", "MM",   None,      10, 0,  2, 0) >>

TEAM_ORDER == [k \in DOMAIN TEAMS |-> TEAMS[k].team]
TeamSet == {TEAMS[k].team : k \in DOMAIN TEAMS}
TEAM_MAP == [t \in TeamSet |-> CHOOSE b \in {TEAMS[k] : k \in DOMAIN TEAMS} : b.team = t]

\* pd.date_range(start, end, freq="MS"): the first of every month from start to end
RECURSIVE MonthStarts(_, _, _, _)
MonthStarts(y, m, yEnd, mEnd) ==
  IF y > yEnd \/ (y = yEnd /\ m > mEnd) THEN <<>>
  ELSE <<[year |-> y, month |-> m]>>
       \o (IF m = 12 THEN MonthStarts(y + 1, 1, yEnd, mEnd)
                     ELSE MonthStarts(y, m + 1, yEnd, mEnd))

\* the range taken without its last month
months_index_open == MonthStarts(2025, 1, 2026, 11)

months_index == MonthStarts(2025, 1, 2026, 12)

\* the first month of a quarter instead of the last
is_quarter_start(d) == d.month \in {1, 4, 7, 10}

is_quarter_end(d) == d.month \in {3, 6, 9, 12}

\* dt.strftime("%Y-%m"): the year and the month of the date
strftime_Ym(d) == <<d.year, d.month>>

dates == months_index
dt == dates[di]

----------------------------------------------------------------------------
(* Inputs (per team), lines 58-128 *)

MaxBump == 1

\* the stops of the two sliders
AttrStops == {Halves(h) : h \in 0..30}
PromoStops == {FromInt(p) : p \in 0..40}

\* what the four widgets of a band can return
WidgetRange(band, w) ==
  /\ w.start \in Nat
  /\ w.hires \in Nat
  /\ w.attr \in AttrStops
  /\ w.promo \in (IF band.promo_to = None THEN {FZero} ELSE PromoStops)

\* the widgets of one band of the default table: the starting headcount is
\* the default raised by sc, hires are the default or 0, and each slider is at
\* its minimum, its default or its maximum
ProgramWidget(band, sc, hp, ap, pp) ==
  [start |-> band.defaults.start + sc,
   hires |-> IF hp = "zero" THEN 0 ELSE band.defaults.hires,
   attr  |-> FromInt(IF ap = "min" THEN 0 ELSE IF ap = "max" THEN 15
                     ELSE band.defaults.attr),
   promo |-> FromInt(IF band.promo_to = None \/ pp = "min" THEN 0
                     ELSE IF pp = "max" THEN 40 ELSE band.defaults.promo)]

ProgramWidgets ==
  { [t \in {DefaultTEAMS[k].team : k \in 1..8} |->
       ProgramWidget(DefaultTEAMS[CHOOSE k \in 1..8 : DefaultTEAMS[k].team = t],
                     sc, hp, ap, pp)] :
     sc \in 0..MaxBump, hp \in {"zero", "default"},
     ap \in {"min", "default", "max"}, pp \in {"min", "default", "max"} }

BuildInputs ==
  /\ pc = "inputs"
  /\ inputs' = [t \in TeamSet |->
       LET band == TEAM_MAP[t]
           w == widgets[t]
           promo == IF band.promo_to = None THEN FZero ELSE w.promo
       IN  [segment  |-> band.segment,
            starting |-> FromInt(w.start),
            hires    |-> FromInt(w.hires),
            attr     |-> FDiv(w.attr, FromInt(100)),
            promo    |-> FDiv(promo, FromInt(100)),
            promo_to |-> band.promo_to]]
  /\ pc' = "simulate"
  /\ UNCHANGED <<TEAMS, widgets, di, hc, moves, i, pre,
                 prev, rows, promo_rows, df, promo_df, k1, k2, k3>>

----------------------------------------------------------------------------
(* simulate(), lines 135-186 *)

SimulateStart ==
  /\ pc = "simulate"
  /\ hc' = [t \in TeamSet |-> inputs[t].starting]
  /\ rows' = <<>>
  /\ promo_rows' = <<>>
  /\ di' = 1
  /\ pc' = IF dates = <<>> THEN "return" ELSE "attrition"
  /\ UNCHANGED <<TEAMS, widgets, inputs, moves, i, pre,
                 prev, df, promo_df, k1, k2, k3>>

\* hc[t] * inputs[t]["attr"]
AfterAttritionRate(h, t) == FMul(h[t], inputs[t].attr)

\* hc[t] * (1.0 - inputs[t]["attr"])
AfterAttrition(h, t) == FMul(h[t], FSub(FromInt(1), inputs[t].attr))

Attrition ==
  /\ pc = "attrition"
  /\ hc' = [t \in TeamSet |-> AfterAttrition(hc, t)]
  /\ prev' = hc
  /\ pc' = "hires"
  /\ UNCHANGED <<TEAMS, widgets, inputs, di, moves, i, pre,
                 rows, promo_rows, df, promo_df, k1, k2, k3>>

\* hc[t] + inputs[t]["hires"]
AfterHires(h, t) == FAdd(h[t], inputs[t].hires)

Hires ==
  /\ pc = "hires"
  /\ hc' = [t \in TeamSet |-> AfterHires(hc, t)]
  /\ pc' = "promotions"
  /\ UNCHANGED <<TEAMS, widgets, inputs, di, moves, i, pre,
                 prev, rows, promo_rows, df, promo_df, k1, k2, k3>>

\* a band whose promotion rate is 0 passed over like one without successor
NoSuccessorOrIdle(t) == inputs[t].promo_to = None \/ FIsZero(inputs[t].promo)

\* the test 'to_team is None' of both promotion loops
NoSuccessor(t) == inputs[t].promo_to = None

\* the amounts taken with the slider's percentage instead of the fraction
ComputedMovesPercent(h) ==
  [t \in TeamSet |-> IF NoSuccessor(t) THEN FZero ELSE FMul(h[t], widgets[t].promo)]

\* the moves map of lines 154-159
ComputedMoves(h) ==
  [t \in TeamSet |-> IF NoSuccessor(t) THEN FZero ELSE FMul(h[t], inputs[t].promo)]

ComputeMoves ==
  /\ pc = "promotions"
  /\ is_quarter_end(dt)
  /\ moves' = ComputedMoves(hc)
  /\ pre' = hc
  /\ i' = 1
  /\ pc' = "apply"
  /\ UNCHANGED <<TEAMS, widgets, inputs, di, hc, prev,
                 rows, promo_rows, df, promo_df, k1, k2, k3>>

SkipPromotions ==
  /\ pc = "promotions"
  /\ ~is_quarter_end(dt)
  /\ pc' = "record"
  /\ UNCHANGED <<TEAMS, widgets, inputs, di, hc, moves, i, pre,
                 prev, rows, promo_rows, df, promo_df, k1, k2, k3>>

\* the amount taken from the source twice
DebitTwice(h, t, amt) == [h EXCEPT ![t] = FSub(FSub(h[t], amt), amt)]

\* hc[t] -= amt
Debit(h, t, amt) == [h EXCEPT ![t] = FSub(h[t], amt)]

\* hc[to_team] = amt
CreditAssign(h, to_team, amt) == [h EXCEPT ![to_team] = amt]

\* hc[to_team] += amt
Credit(h, to_team, amt) == [h EXCEPT ![to_team] = FAdd(h[to_team], amt)]

\* the amount taken from the running headcount instead of the moves map
ApplyOneLive(h, mv, t) ==
  LET amt == FMul(h[t], inputs[t].promo)
  IN  Credit(Debit(h, t, amt), inputs[t].promo_to, amt)

\* the move applied downward: out of the successor, into the source
ApplyOneDown(h, mv, t) == Credit(Debit(h, inputs[t].promo_to, mv[t]), t, mv[t])

\* the move credited to the successor twice
ApplyOneDouble(h, mv, t) ==
  Credit(Credit(Debit(h, t, mv[t]), inputs[t].promo_to, mv[t]), inputs[t].promo_to, mv[t])

\* lines 166-168 for one source band t
ApplyOne(h, mv, t) == Credit(Debit(h, t, mv[t]), inputs[t].promo_to, mv[t])

\* the amount recorded without rounding
PromoRowUnrounded(d, t, to_team, amt) ==
  [QuarterEnd |-> strftime_Ym(d), FromBand |-> t, ToBand |-> to_team, PromotedHC |-> amt]

\* the row of lines 170-175
PromoRow(d, t, to_team, amt) ==
  [QuarterEnd |-> strftime_Ym(d), FromBand |-> t, ToBand |-> to_team,
   PromotedHC |-> PyRound1(amt)]

\* one iteration of the loop of lines 162-175; a successor that is no key of
\* hc raises KeyError after the debit
ApplyMove ==
  /\ pc = "apply"
  /\ LET t == TEAM_ORDER[i]
         to_team == inputs[t].promo_to
         next == IF i = Len(TEAM_ORDER) THEN "record" ELSE "apply"
     IN  IF NoSuccessor(t)
         THEN /\ pc' = next
              /\ UNCHANGED <<hc, promo_rows>>
         ELSE IF to_team \notin DOMAIN hc
         THEN /\ hc' = Debit(hc, t, moves[t])
              /\ pc' = "KeyError"
              /\ UNCHANGED promo_rows
         ELSE /\ hc' = ApplyOne(hc, moves, t)
              /\ promo_rows' = Append(promo_rows, PromoRow(dt, t, to_team, moves[t]))
              /\ pc' = next
  /\ i' = i + 1
  /\ UNCHANGED <<TEAMS, widgets, inputs, di, moves, pre,
                 prev, rows, df, promo_df, k1, k2, k3>>

\* sum(...) over a sequence of floats: 0 + x1 + x2 + ... from the left
RECURSIVE PySum(_)
PySum(xs) ==
  IF xs = <<>> THEN FZero
  ELSE FAdd(PySum(SubSeq(xs, 1, Len(xs) - 1)), xs[Len(xs)])

\* the running value reported as it is
ReportedUnclamped(h, t) == h[t]

\* the value reported for a band, line 180
Reported(h, t) == PyMax0(h[t])

\* the Total taken over the running values instead of the reported ones
SnapshotRowRunningTotal(d, h) ==
  [Month |-> d, band |-> [t \in TeamSet |-> Reported(h, t)],
   Total |-> PySum([k \in DOMAIN TEAM_ORDER |-> h[TEAM_ORDER[k]]])]

\* the row of lines 178-181
SnapshotRow(d, h) ==
  LET band == [t \in TeamSet |-> Reported(h, t)]
  IN  [Month |-> d, band |-> band,
       Total |-> PySum([k \in DOMAIN TEAM_ORDER |-> band[TEAM_ORDER[k]]])]

Record ==
  /\ pc = "record"
  /\ rows' = Append(rows, SnapshotRow(dt, hc))
  /\ IF di < Len(dates)
     THEN di' = di + 1 /\ pc' = "attrition"
     ELSE di' = di /\ pc' = "return"
  /\ UNCHANGED <<TEAMS, widgets, inputs, hc, moves, i, pre,
                 prev, promo_rows, df, promo_df, k1, k2, k3>>

Return ==
  /\ pc = "return"
  /\ df' = rows
  /\ promo_df' = promo_rows
  /\ pc' = "done"
  /\ UNCHANGED <<TEAMS, widgets, inputs, di, hc, moves, i,
                 pre, prev, rows, promo_rows, k1, k2, k3>>

----------------------------------------------------------------------------
(* Outputs: the summary metrics, lines 195-198 *)

\* df.iloc[n]: the row at position n, counted from the end for negative n
iloc(d, n) == IF n < 0 THEN d[Len(d) + 1 + n] ELSE d[n + 1]

\* the start taken from the configured starting headcounts
OutputsConfigured ==
  /\ pc = "done"
  /\ k1' = Format0f(iloc(df, -1).Total)
  /\ k2' = Format0f(PySum([k \in DOMAIN TEAM_ORDER |-> inputs[TEAM_ORDER[k]].starting]))
  /\ k3' = Format0f(FSub(iloc(df, -1).Total,
                         PySum([k \in DOMAIN TEAM_ORDER |-> inputs[TEAM_ORDER[k]].starting])))
  /\ pc' = "shown"
  /\ UNCHANGED <<TEAMS, widgets, inputs, di, hc, moves, i, pre, prev,
                 rows, promo_rows, df, promo_df>>

Outputs ==
  /\ pc = "done"
  /\ k1' = Format0f(iloc(df, -1).Total)
  /\ k2' = Format0f(iloc(df, 0).Total)
  /\ k3' = Format0f(FSub(iloc(df, -1).Total, iloc(df, 0).Total))
  /\ pc' = "shown"
  /\ UNCHANGED <<TEAMS, widgets, inputs, di, hc, moves, i, pre, prev,
                 rows, promo_rows, df, promo_df>>

Unset == <<>>

InitRest ==
  /\ inputs = Unset
  /\ pc = "inputs"
  /\ di = 0
  /\ hc = Unset
  /\ moves = Unset
  /\ i = 0
  /\ pre = Unset
  /\ prev = Unset
  /\ rows = <<>>
  /\ promo_rows = <<>>
  /\ df = Unset
  /\ promo_df = Unset
  /\ k1 = Unset
  /\ k2 = Unset
  /\ k3 = Unset

\* the program as shipped: the default band table and widgets within their ranges
Init ==
  /\ TEAMS = DefaultTEAMS
  /\ widgets \in ProgramWidgets
  /\ InitRest

Next ==
  \/ BuildInputs
  \/ SimulateStart
  \/ Attrition
  \/ Hires
  \/ ComputeMoves
  \/ SkipPromotions
  \/ ApplyMove
  \/ Record
  \/ Return
  \/ Outputs

Spec == Init /\ [][Next]_vars

----------------------------------------------------------------------------
(* simulate() on other band tables and on values outside the widget ranges *)

EngineBand(team, promo_to) == Band(team, "X", promo_to, 0, 0, 0, 0)

ChainAB  == << EngineBand("A", "B"), EngineBand("B", None) >>
ChainABC == << EngineBand("A", "B"), EngineBand("B", "C"), EngineBand("C", None) >>
\* a successor that is no band, no band without successor, two bands without successor
ChainDangling == << EngineBand("A", "Z"), EngineBand("B", None) >>
ChainCycle    == << EngineBand("A", "B"), EngineBand("B", "A") >>
ChainTwoTops  == << EngineBand("A", None), EngineBand("B", None) >>

EngineTEAMS == {ChainAB, ChainABC, ChainDangling, ChainCycle, ChainTwoTops}

ExampleA == [start |-> 100, hires |-> 0, attr |-> FromInt(10), promo |-> FromInt(50)]
ExampleB == [start |-> 0, hires |-> 0, attr |-> FZero, promo |-> FZero]
Typical  == [start |-> 36, hires |-> 20, attr |-> FromInt(5), promo |-> FromInt(30)]
\* the largest valid rates
Boundary == [start |-> 7, hires |-> 3, attr |-> FromInt(99), promo |-> FromInt(100)]
Pathological == [start |-> 10, hires |-> 0 - 5, attr |-> FromInt(150), promo |-> FromInt(120)]

EngineSettings == {ExampleA, ExampleB, Typical, Boundary, Pathological}

InitEngine ==
  /\ TEAMS \in EngineTEAMS
  /\ widgets \in [TeamSet -> EngineSettings]
  /\ InitRest

SpecEngine == InitEngine /\ [][Next]_vars

----------------------------------------------------------------------------
(* Vocabulary of the properties *)

\* the validity rules of a configuration: every successor is a band, exactly
\* one band has no successor, start >= 0, hires >= 0, attrition in [0,1),
\* promotion in [0,1]
ValidTopology ==
  /\ \A k \in DOMAIN TEAMS : TEAMS[k].promo_to = None \/ TEAMS[k].promo_to \in TeamSet
  /\ Cardinality({k \in DOMAIN TEAMS : TEAMS[k].promo_to = None}) = 1

ValidRates ==
  \A t \in TeamSet :
    /\ widgets[t].start >= 0
    /\ widgets[t].hires >= 0
    /\ FLe(FZero, widgets[t].attr) /\ FLt(widgets[t].attr, FromInt(100))
    /\ FLe(FZero, widgets[t].promo) /\ FLe(widgets[t].promo, FromInt(100))

ValidConfiguration == ValidTopology /\ ValidRates

Terminals == {TEAMS[k].team : k \in {j \in DOMAIN TEAMS : TEAMS[j].promo_to = None}}

\* a quarter-end month whose moves have all been applied
PromotionsDone == pc = "record" /\ dt.month \in {3, 6, 9, 12}

\* exact (unrounded) sums over the bands
RECURSIVE XSumSeq(_)
XSumSeq(xs) ==
  IF xs = <<>> THEN FZero ELSE XAdd(XSumSeq(SubSeq(xs, 1, Len(xs) - 1)), xs[Len(xs)])

XSum(h) == XSumSeq([k \in DOMAIN TEAM_ORDER |-> h[TEAM_ORDER[k]]])
XSumAbs(h) == XSumSeq([k \in DOMAIN TEAM_ORDER |-> FAbs(h[TEAM_ORDER[k]])])

\* |x - y| <= 2^-48 * scale, in exact arithmetic
Within(x, y, scale) ==
  FLe(FAbs(XAdd(x, FNeg(y))), [s |-> 0, m |-> scale.m, e |-> scale.e - 48])

Orderings(seq) ==
  { [k \in DOMAIN seq |-> seq[f[k]]] :
      f \in {g \in [DOMAIN seq -> DOMAIN seq] :
               \A a, b \in DOMAIN seq : a /= b => g[a] /= g[b]} }

\* the apply loop of lines 162-168 run over the bands in the given order
RECURSIVE ApplyIn(_, _, _)
ApplyIn(h, mv, order) ==
  IF order = <<>> THEN h
  ELSE ApplyIn(IF NoSuccessor(Head(order)) THEN h ELSE ApplyOne(h, mv, Head(order)),
               mv, Tail(order))

----------------------------------------------------------------------------
(* Properties *)

\* C1 (as stated): in every quarter-end month the sum of the headcounts after
\* all moves equals the sum after attrition and hires, before any move.
C1_ExactConservation ==
  (PromotionsDone /\ ValidConfiguration) => FCmp(XSum(hc), XSum(pre)) = 0

\* C1 (amended): the two sums are equal up to floating-point rounding: they
\* differ by at most 2^-48 of the total before the moves.
C1_Conservation ==
  (PromotionsDone /\ ValidConfiguration) => Within(XSum(hc), XSum(pre), XSum(pre))

C1_Witness ==
  /\ PromotionsDone /\ ValidConfiguration
  /\ \E t \in TeamSet : ~FIsZero(moves[t])
  /\ hc /= pre

\* C2: every band value of every recorded snapshot row is >= 0, whatever the
\* input rates are.
C2_ReportedNonNegative ==
  \A k \in DOMAIN rows : \A t \in TeamSet : FLe(FZero, rows[k].band[t])

\* a row was recorded while the running headcount of a band was negative
C2_Witness ==
  /\ pc \in {"attrition", "return"}
  /\ rows /= <<>>
  /\ \E t \in TeamSet : FLt(hc[t], FZero) /\ rows[Len(rows)].band[t] = FZero

\* C3 (as stated): applying the computed moves in any permutation of the band
\* order yields the same per-band headcount as applying them in TEAM_ORDER.
C3_OrderIdentical ==
  (PromotionsDone /\ ValidConfiguration) =>
     \A order \in Orderings(TEAM_ORDER) : ApplyIn(pre, moves, order) = hc

\* C3 (amended): any permutation yields the same per-band headcount up to
\* floating-point rounding (within 2^-48 of the total headcount).
C3_OrderIndependent ==
  (PromotionsDone /\ ValidConfiguration) =>
     \A order \in Orderings(TEAM_ORDER) : \A t \in TeamSet :
        Within(ApplyIn(pre, moves, order)[t], hc[t], XSumAbs(pre))

\* moves were applied to a band that is both a source and a destination
C3_Witness ==
  /\ PromotionsDone /\ ValidConfiguration
  /\ Len(TEAM_ORDER) = 3
  /\ \A t \in TeamSet \ Terminals : ~FIsZero(moves[t])

\* C4: the band without successor is never the source of a promotion event,
\* and the promotion step never takes headcount from it: a step of the apply
\* loop leaves its headcount alone or credits it with the move it receives.
C4_TerminalNeverSource ==
  [][\A t \in Terminals :
       /\ \A k \in DOMAIN promo_rows' : promo_rows'[k].FromBand /= t
       /\ pc = "apply" =>
            /\ pc' /= "KeyError" \/ ~ValidTopology
            /\ \/ hc'[t] = hc[t]
               \/ /\ inputs[TEAM_ORDER[i]].promo_to = t
                  /\ hc'[t] = FAdd(hc[t], moves[TEAM_ORDER[i]])]_vars

\* promotions were applied with a non-zero rate configured for the band
\* without successor
C4_Witness ==
  /\ PromotionsDone /\ ValidTopology
  /\ \E t \in Terminals : ~FIsZero(widgets[t].promo) /\ hc[t] /= pre[t]

\* C5: if every band's promotion rate is 0, no promotion event is recorded:
\* the promotion-flow table is empty at the end of the horizon.
C5_NoEventsAtZeroRates ==
  (pc = "done" /\ \A t \in TeamSet : FIsZero(inputs[t].promo)) => promo_df = <<>>

\* C6: with attrition, hires and promotion all 0 for every band, every snapshot
\* reports each band's starting headcount and the same Total in every month.
C6_ZeroRatesConstant ==
  (pc /= "inputs" /\ \A t \in TeamSet :
       FIsZero(inputs[t].attr) /\ FIsZero(inputs[t].hires) /\ FIsZero(inputs[t].promo)) =>
     \A k \in DOMAIN rows :
        /\ \A t \in TeamSet : rows[k].band[t] = FromInt(widgets[t].start)
        /\ rows[k].Total = rows[1].Total

C6_Witness ==
  /\ pc = "done" /\ Len(df) = 24
  /\ \A t \in TeamSet :
       FIsZero(inputs[t].attr) /\ FIsZero(inputs[t].hires) /\ FIsZero(inputs[t].promo)
  /\ \E t \in TeamSet : widgets[t].start > 0

\* C7: the worked example A -> B (A: 100, 0 hires, 10%, 50%; B: all 0): the
\* snapshots of Jan, Feb, Mar 2025 are A=90 B=0, A=81 B=0, A=36.45 B=36.45, no
\* event is recorded in Jan or Feb, and by the end of March exactly one is
\* (2025-03, A to B, 36.45 rounded to one decimal).
Decimal(n, d) == FDiv(FromInt(n), FromInt(d))

C7_WorkedExample ==
  (TEAMS = ChainAB /\ widgets = [t \in {"A", "B"} |-> IF t = "A" THEN ExampleA ELSE ExampleB]) =>
     /\ (Len(rows) >= 1) =>
          (/\ rows[1].Month = [year |-> 2025, month |-> 1]
           /\ rows[1].band = [t \in {"A", "B"} |-> IF t = "A" THEN FromInt(90) ELSE FZero])
     /\ (Len(rows) >= 2) =>
          (/\ rows[2].Month = [year |-> 2025, month |-> 2]
           /\ rows[2].band = [t \in {"A", "B"} |-> IF t = "A" THEN FromInt(81) ELSE FZero])
     /\ (Len(rows) >= 3) =>
          (/\ rows[3].Month = [year |-> 2025, month |-> 3]
           /\ rows[3].band = [t \in {"A", "B"} |-> Decimal(3645, 100)])
     /\ (di <= 2) => (promo_rows = <<>>)
     /\ (Len(rows) = 3) =>
          (promo_rows = << [QuarterEnd |-> <<2025, 3>>, FromBand |-> "A", ToBand |-> "B",
                            PromotedHC |-> Decimal(365, 10)] >>)

C7_Witness ==
  /\ TEAMS = ChainAB
  /\ widgets = [t \in {"A", "B"} |-> IF t = "A" THEN ExampleA ELSE ExampleB]
  /\ Len(rows) = 3

AllMonthsReturned ==
  /\ pc = "done"
  /\ Len(df) = 24
  /\ \A k \in 1..24 :
       df[k].Month = [year |-> 2025 + ((k - 1) \div 12), month |-> ((k - 1) % 12) + 1]

\* an upper bound on the number of steps the script has left
Variant ==
  LET L == Len(TEAM_ORDER)
      rank == CASE pc = "attrition" -> 0
                [] pc = "hires" -> 1
                [] pc = "promotions" -> 2
                [] pc = "apply" -> 2 + i
                [] pc = "record" -> L + 3
  IN  CASE pc = "inputs" -> 24 * (L + 5) + L + 8
        [] pc = "simulate" -> 24 * (L + 5) + L + 7
        [] pc \in {"attrition", "hires", "promotions", "apply", "record"} ->
             (24 - di) * (L + 5) + (L + 3 - rank) + 3
        [] pc = "return" -> 2
        [] pc = "done" -> 1
        [] pc \in {"shown", "KeyError"} -> 0

\* C10: simulate terminates after one pass over Jan 2025 .. Dec 2026: every
\* step lowers the number of steps left, which is never negative, the rows
\* recorded so far are the first months in order, one each, and the script
\* ends with exactly the 24 snapshots of the 24 months.
C10_Terminates ==
  [][/\ Variant' < Variant
     /\ Variant' >= 0
     /\ pc' /= "KeyError"
     /\ \A k \in DOMAIN rows' :
          rows'[k].Month = [year |-> 2025 + ((k - 1) \div 12), month |-> ((k - 1) % 12) + 1]
     /\ pc' = "done" => AllMonthsReturned']_vars

C10_Witness == pc = "done" /\ Len(df) = 24 /\ Len(rows) = 24

\* C11: in a month whose number is not 3, 6, 9 or 12 the headcount of every
\* band after the month's steps is previous * (1 - attrition) + hires, with
\* attrition applied before the hires are added, no move is applied and no
\* promotion event carries the month.
C11_PlainMonth ==
  (pc = "record" /\ dt.month \notin {3, 6, 9, 12}) =>
     /\ \A t \in TeamSet :
          hc[t] = FAdd(FMul(prev[t], FSub(FromInt(1), inputs[t].attr)), inputs[t].hires)
     /\ \A k \in DOMAIN promo_rows : promo_rows[k].QuarterEnd /= <<dt.year, dt.month>>
     /\ \A k \in DOMAIN promo_rows : promo_rows[k].QuarterEnd[2] \in {3, 6, 9, 12}

\* May 2025 is over: events of March exist, and attrition and hires have
\* changed a band that has both
C11_Witness ==
  /\ pc = "record" /\ dt = [year |-> 2025, month |-> 5]
  /\ promo_rows /= <<>>
  /\ \E t \in TeamSet :
       /\ ~FIsZero(inputs[t].attr) /\ ~FIsZero(inputs[t].hires)
       /\ hc[t] /= prev[t]
       /\ hc[t] /= FMul(FAdd(prev[t], inputs[t].hires), FSub(FromInt(1), inputs[t].attr))

\* the amounts out[s] of the bands s whose successor is b, in band order
IncomingSeq(b) ==
  [k \in DOMAIN TEAM_ORDER |->
     IF inputs[TEAM_ORDER[k]].promo_to = b THEN moves[TEAM_ORDER[k]] ELSE FZero]

\* pre[b] - out[b] + sum of out[s], in exact arithmetic
ExactBalance(b) == XAdd(XAdd(pre[b], FNeg(moves[b])), XSumSeq(IncomingSeq(b)))

\* the same expression evaluated in floats from left to right
FloatBalance(b) == FAdd(FSub(pre[b], moves[b]), PySum(IncomingSeq(b)))

\* C12 (as stated): after the promotion step of a quarter-end month every
\* band b holds pre[b] - out[b] + sum of out[s] over the bands s whose
\* successor is b, with out[x] = pre[x] * promotion[x] for a band with a
\* successor and 0 otherwise (the expression read in exact arithmetic or in
\* floats as it is written).
C12_ExactBalance ==
  PromotionsDone =>
     /\ moves = ComputedMoves(pre)
     /\ \A b \in TeamSet :
          \/ FCmp(hc[b], ExactBalance(b)) = 0
          \/ hc[b] = FloatBalance(b)

\* C12 (amended): every amount out[x] is the product of pre[x], the headcount
\* before any move of the pass, and promotion[x], and every band ends the
\* pass with pre[b] - out[b] + sum of out[s] up to floating-point rounding
\* (within 2^-48 of the total headcount).
C12_Balance ==
  PromotionsDone =>
     /\ moves = ComputedMoves(pre)
     /\ \A b \in TeamSet : Within(hc[b], ExactBalance(b), XSumAbs(pre))

\* a pass of the 8-band chain in which a band both receives and sends
C12_Witness ==
  /\ PromotionsDone /\ Len(TEAM_ORDER) = 8
  /\ \E b, s \in TeamSet :
       /\ inputs[s].promo_to = b
       /\ ~FIsZero(moves[s]) /\ ~FIsZero(moves[b])
       /\ hc[b] /= pre[b]

\* the bands that have a successor, in band order
SourceBands == SelectSeq(TEAM_ORDER, LAMBDA t : TEAM_MAP[t].promo_to /= None)

\* the number of quarter-end months among the first n months of the horizon
QuarterEndsAmong(n) == Cardinality({k \in 1..n : dates[k].month \in {3, 6, 9, 12}})

C14_TotalOfRow ==
  [][pc = "record" =>
       LET r == rows'[Len(rows')]
       IN  /\ rows' = Append(rows, r)
           /\ \A t \in TeamSet : r.band[t] = (IF FLt(FZero, hc[t]) THEN hc[t] ELSE FZero)
           /\ r.Total = PySum([k \in DOMAIN TEAM_ORDER |-> r.band[TEAM_ORDER[k]]])
           /\ Within(r.Total, XSum(r.band), XSum(r.band))
           /\ hc' = hc]_vars

\* a month that began from a negative headcount whose snapshot reported 0,
\* with a Total that is not the sum of the running values
C14_Witness ==
  /\ pc = "hires" /\ rows /= <<>>
  /\ \E t \in TeamSet :
       /\ FLt(prev[t], FZero)
       /\ rows[Len(rows)].band[t] = FZero
       /\ hc[t] = AfterAttrition(prev, t) /\ ~FIsZero(hc[t])
  /\ rows[Len(rows)].Total /= PySum([k \in DOMAIN TEAM_ORDER |-> prev[TEAM_ORDER[k]]])

\* the headcount a band is reported with in January 2025: the configured
\* start after one month of attrition and hires
JanuaryReported(t) ==
  PyMax0(FAdd(FMul(inputs[t].starting, FSub(FromInt(1), inputs[t].attr)), inputs[t].hires))

\* C15: the three summary metrics are taken from the returned time series:
\* the start total shows the Total of its first row, which is the row of
\* January 2025 and sums the headcounts after January's attrition and hires,
\* the end total shows the Total of its last row, the row of December 2026,
\* and the net change shows the end total minus the start total.
C15_SummaryScalars ==
  pc = "shown" =>
     LET first == df[1]
         last  == df[Len(df)]
     IN  /\ first.Month = [year |-> 2025, month |-> 1]
         /\ last.Month = [year |-> 2026, month |-> 12]
         /\ first.Total = PySum([k \in DOMAIN TEAM_ORDER |-> JanuaryReported(TEAM_ORDER[k])])
         /\ k2 = Format0f(first.Total)
         /\ k1 = Format0f(last.Total)
         /\ k3 = Format0f(XAdd(last.Total, FNeg(first.Total)))

\* the metrics are shown, the start total is not that of the configured
\* starting headcounts, and the net change is not zero
C15_Witness ==
  /\ pc = "shown"
  /\ k2 /= Format0f(PySum([k \in DOMAIN TEAM_ORDER |-> inputs[TEAM_ORDER[k]].starting]))
  /\ k3.digits /= 0
  /\ k1 /= k2

\* the position of a band in TEAM_ORDER
Position(t) == CHOOSE k \in DOMAIN TEAM_ORDER : TEAM_ORDER[k] = t

\* C16: promotion flows upward along one chain: every band but the last has
\* exactly one successor, a band later in TEAM_ORDER, and the last has none;
\* every promotion event goes from a band to a band later in TEAM_ORDER,
\* always the same one for a given source; and a step of the apply loop
\* lowers the headcount of the source only and raises that of a later band
\* only.
C16_UpwardChain ==
  [][/\ {k \in DOMAIN TEAMS : TEAMS[k].promo_to = None} = {Len(TEAMS)}
     /\ \A k \in DOMAIN TEAMS :
          TEAMS[k].promo_to /= None =>
             (TEAMS[k].promo_to \in TeamSet /\ Position(TEAMS[k].promo_to) > k)
     /\ \A k \in DOMAIN promo_rows' :
          /\ promo_rows'[k].FromBand \in TeamSet /\ promo_rows'[k].ToBand \in TeamSet
          /\ Position(promo_rows'[k].ToBand) > Position(promo_rows'[k].FromBand)
     /\ \A j, k \in DOMAIN promo_rows' :
          promo_rows'[j].FromBand = promo_rows'[k].FromBand =>
             promo_rows'[j].ToBand = promo_rows'[k].ToBand
     /\ pc = "apply" =>
          \A b \in TeamSet :
             /\ FLt(hc'[b], hc[b]) => b = TEAM_ORDER[i]
             /\ FLt(hc[b], hc'[b]) => (Position(b) > i /\ b = TEAM_MAP[TEAM_ORDER[i]].promo_to)]_vars

\* the last move of a pass has just raised the last band
C16_Witness ==
  /\ pc = "record" /\ dt.month = 6
  /\ Len(promo_rows) = 14
  /\ promo_rows[14].ToBand = TEAM_ORDER[8]
  /\ FLt(pre[TEAM_ORDER[8]], hc[TEAM_ORDER[8]])
  /\ FLt(hc[TEAM_ORDER[1]], pre[TEAM_ORDER[1]])

\* C17: in a valid configuration the running headcount of every band is
\* >= 0 after every step (attrition, hires, each single move), so the clamp
\* of the snapshot changes no value: the row just recorded holds the running
\* headcounts themselves and its Total is the sum of the running state.
C17_RunningNonNegative ==
  (ValidConfiguration /\ pc \notin {"inputs", "simulate"}) =>
     /\ \A t \in TeamSet : FLe(FZero, hc[t])
     /\ (pc \in {"attrition", "return", "done", "shown"} /\ rows /= <<>>) =>
          LET r == rows[Len(rows)]
          IN  /\ r.band = hc
              /\ r.Total = PySum([k \in DOMAIN TEAM_ORDER |-> hc[TEAM_ORDER[k]]])
              /\ Within(r.Total, XSum(hc), XSum(hc))

\* a band at the largest valid rates was emptied by its move and reported 0
C17_Witness ==
  /\ ValidConfiguration
  /\ pc = "attrition" /\ di = 4
  /\ \E t \in TeamSet :
       /\ widgets[t] = Boundary
       /\ FLt(FZero, pre[t]) /\ moves[t] = pre[t]
       /\ hc[t] = FZero /\ rows[3].band[t] = FZero

\* C18: in a quarter-end month of a valid configuration every amount to move
\* is >= 0 and at most the headcount its source band holds after the month's
\* attrition and hires, and during and after the apply loop a band that is
\* no source never holds less than before the pass, while a source never
\* holds less than that headcount less its own amount.
C18_MovesBounded ==
  (ValidConfiguration /\ (pc = "apply" \/ PromotionsDone)) =>
     \A t \in TeamSet :
        /\ FLe(FZero, moves[t]) /\ FLe(moves[t], pre[t])
        /\ NoSuccessor(t) => FLe(pre[t], hc[t])
        /\ FLe(FSub(pre[t], moves[t]), hc[t])

\* a pass of the three-band chain in which the middle band received a move
\* and still ended lower, because of its own move, and the last band ended
\* higher
C18_Witness ==
  /\ ValidConfiguration /\ PromotionsDone
  /\ TEAMS = ChainABC
  /\ ~FIsZero(moves["A"])
  /\ FLt(hc["B"], pre["B"])
  /\ FLt(pre["C"], hc["C"])

====
